---- MODULE Spec2Model ----
(***************************************************************************)
(* A model of PyAti.py: the ATISensor client of an ATI force/torque        *)
(* sensor.  The RDT part exchanges datagrams over one UDP socket owned by  *)
(* the client; the calibration part opens one TCP connection per query.    *)
(* Datagrams and stream contents are sequences of bytes (0..255) packed    *)
(* and unpacked big-endian as struct.pack / struct.unpack do.              *)
(***************************************************************************)
EXTENDS Integers, Sequences, FiniteSets, TLC

(***************************************************************************)
(* Bounds of the model.                                                    *)
(***************************************************************************)
\* Calls (read_raw_counts, bias_current_value, read_calibration_info,
\* close) a run makes in total.
MaxOps == 3

\* The caller threads a run may have; Spec runs the first one alone.
Threads == {1, 2}

(***************************************************************************)
(* struct.pack / struct.unpack, big-endian.                                *)
(***************************************************************************)
Take(s, n) == SubSeq(s, 1, IF n < Len(s) THEN n ELSE Len(s))

Drop(s, n) == SubSeq(s, n + 1, Len(s))

\* '>H'
PackH(n) == << (n \div 256) % 256, n % 256 >>

\* '>B'
PackB(n) == << n % 256 >>

\* '>i' and '>I': the four bytes of n in two's complement, high byte first
PackI(n) ==
  << (n \div 16777216) % 256, (n \div 65536) % 256, (n \div 256) % 256, n % 256 >>

\* '>H' of two bytes
UnpackH(b) == b[1] * 256 + b[2]

\* '>I' of four bytes (values below 2^31: the model's integers are 32 bits wide)
UnpackU(b) == b[1] * 16777216 + b[2] * 65536 + b[3] * 256 + b[4]

\* '>i' of four bytes: two's complement
UnpackI(b) ==
  (IF b[1] >= 128 THEN b[1] - 256 ELSE b[1]) * 16777216
    + b[2] * 65536 + b[3] * 256 + b[4]

\* struct.pack('>HHHH', a, b, c, d)
PackHHHH(a, b, c, d) == PackH(a) \o PackH(b) \o PackH(c) \o PackH(d)

\* struct.unpack('>6i', data): six signed 32-bit integers of 24 bytes
Unpack6i(data) == [ i \in 1..6 |-> UnpackI(SubSeq(data, 4 * i - 3, 4 * i)) ]

\* data[a:b] of Python, for 0 <= a <= b
Slice(data, a, b) == SubSeq(data, a + 1, IF b < Len(data) THEN b ELSE Len(data))

(***************************************************************************)
(* The client's constants.                                                 *)
(***************************************************************************)
\* self.command
command == PackHHHH(4660, 2, 0, 1)

\* BIAS_CMD, were its last field the sample count of a read request
BIAS_CMD_counted == PackHHHH(4660, 66, 0, 1)

\* BIAS_CMD
BIAS_CMD == PackHHHH(4660, 66, 0, 0)

\* the bufsize of recvfrom and the length read_raw_counts accepts
RDT_LEN == 36

(***************************************************************************)
(* The sensor's side of the RDT exchange: the response datagrams it may    *)
(* send.  A well-formed one is a 12-byte status header and six counts.     *)
(***************************************************************************)
CountVectors ==
  { << 1000000, 0, -500000, 0, 2000, 0 >>, << -1, 2, -3, 4, -5, 6 >> }

RdtRecord(c) ==
  PackI(1) \o PackI(1) \o PackI(0)
    \o PackI(c[1]) \o PackI(c[2]) \o PackI(c[3])
    \o PackI(c[4]) \o PackI(c[5]) \o PackI(c[6])

\* lengths of the datagrams the sensor sends: empty, one byte short, exact,
\* four bytes long
RespLens == {0, 35, 36, 40}

Trailer == << 222, 173, 190, 239 >>

Responses ==
  { Take(RdtRecord(c) \o Trailer, n) : c \in CountVectors, n \in RespLens }

(***************************************************************************)
(* State.                                                                  *)
(***************************************************************************)
VARIABLES
  threads,    \* the caller threads of this run
  self,       \* the ATISensor instance: its attributes, by name
  pc,         \* per thread: where its call in progress stands, or "idle"
  ret,        \* per thread: how its latest call ended (or that it is pending)
  io,         \* per thread: the socket calls its latest call has made, in order
  rcvd,       \* per thread: what the latest call received, as a sequence of
              \* none or one: the datagram, as the sensor sent it, that
              \* recvfrom consumed; the response recv_all returned
  toSensor,   \* request datagrams on their way to the sensor: the bytes,
              \* and (not on the wire) the call and the thread they are of
  rxq,        \* the UDP socket's receive queue: the bytes, and (not on the
              \* wire) the call and the thread whose request they answer
  biased,     \* the sensor has taken a bias command
  tcp,        \* the calibration query's TCP socket
  stream,     \* bytes the peer has still to deliver on the TCP connection
  data,       \* recv_all: the bytes accumulated so far
  ops,        \* calls made so far
  log         \* the calls that have ended, in order: thread, op, kind, msg

rdtVars == << pc, ret, io, rcvd, toSensor, rxq, biased >>

tcpVars == << tcp, stream, data >>

vars ==
  << threads, self, pc, ret, io, rcvd, toSensor, rxq, biased, tcp, stream,
     data, ops, log >>

(***************************************************************************)
(* How a call ends.                                                        *)
(***************************************************************************)
\* msg and arg: the exception's text and the value it names, as characters;
\* counts: the list read_raw_counts returns; info: the dictionary
\* read_calibration_info returns (a sequence of none or one); out: what the
\* call printed; args: the arguments of the call; value: what read_ft or
\* describe_units returns (a sequence of none or one).
Outcome(op, kind, msg, arg, counts, info, out) ==
  [ op |-> op, kind |-> kind, msg |-> msg, arg |-> arg, counts |-> counts,
    info |-> info, out |-> out, args |-> << >>, value |-> << >> ]

NoCall == Outcome("none", "none", "", << >>, << >>, << >>, "")

Pending(op) == Outcome(op, "pending", "", << >>, << >>, << >>, "")

Returned(op) == Outcome(op, "returned", "", << >>, << >>, << >>, "")

Raised(op, kind, msg, arg) == Outcome(op, kind, msg, arg, << >>, << >>, "")

\* the call of thread t ends with outcome o
Ends(t, o) ==
  /\ ret' = [ ret EXCEPT ![t] = o ]
  /\ log' = Append(log, [ thread |-> t, op |-> o.op, kind |-> o.kind,
                          msg |-> o.msg ])

(***************************************************************************)
(* ATISensor.__init__                                                      *)
(***************************************************************************)
DefaultTcpPort == 49151

DefaultUdpPort == 49152

DefaultTimeout == 2

SensorIp == "192.168.1.1"

ForceScales == {1000000}

TorqueScales == {1000}

\* a socket's timeout: None (the socket blocks), or the seconds settimeout
\* was given, as a sequence of none or one
None == << >>

\* socket.socket(AF_INET, SOCK_DGRAM): open, blocking (no timeout)
NewSocket == [ closed |-> FALSE, timeout |-> None ]

\* the attributes __init__ assigns
ATISensor(ip, counts_per_force, counts_per_torque) ==
  [ tcp_port |-> DefaultTcpPort,
    addr |-> << ip, DefaultUdpPort >>,
    sock |-> NewSocket,
    command |-> command,
    counts_per_force |-> counts_per_force,
    counts_per_torque |-> counts_per_torque,
    timeout |-> DefaultTimeout ]

NoTcp == [ state |-> "none", timeout |-> None ]

Init ==
  /\ threads = {1}
  /\ \E cf \in ForceScales, ct \in TorqueScales :
       self = ATISensor(SensorIp, cf, ct)
  /\ pc = [ t \in Threads |-> "idle" ]
  /\ ret = [ t \in Threads |-> NoCall ]
  /\ io = [ t \in Threads |-> << >> ]
  /\ rcvd = [ t \in Threads |-> << >> ]
  /\ toSensor = << >>
  /\ rxq = << >>
  /\ biased = FALSE
  /\ tcp = NoTcp
  /\ stream = << >>
  /\ data = << >>
  /\ ops = 0
  /\ log = << >>

\* thread t may start a call
CanCall(t) == t \in threads /\ pc[t] = "idle" /\ ops < MaxOps

(***************************************************************************)
(* The UDP socket.                                                         *)
(***************************************************************************)
\* sock.sendto: what the call may do on socket s. A closed socket has no
\* descriptor (EBADF); an open one sends or fails in the network stack.
SendtoResults(s) == IF s.closed THEN {"EBADF"} ELSE {"sent", "ENETUNREACH"}

\* sock.recvfrom(bufsize) of datagram d: the first bufsize bytes; the rest
\* of the datagram is discarded (a datagram socket of a POSIX system)
Recvfrom(d, bufsize) == Take(d, bufsize)

\* the errors a blocked recvfrom may end with on socket s
RecvfromErrors(s) ==
  {"ECONNRESET"} \cup (IF s.timeout = None THEN {} ELSE {"timed out"})

(***************************************************************************)
(* ATISensor.read_raw_counts                                               *)
(***************************************************************************)
\* line 19: the length test
InvalidLength(d) == Len(d) # RDT_LEN

\* line 21
DecodeCounts(d) == Unpack6i(Slice(d, 12, 36))

\* lines 19-21, on the data recvfrom returned
ReadResult(d) ==
  IF InvalidLength(d)
    THEN Raised("read_raw_counts", "RuntimeError",
                "Invalid ATI response length", << >>)
    ELSE [ Returned("read_raw_counts") EXCEPT !.counts = DecodeCounts(d) ]

\* line 17: self.sock.sendto(self.command, self.addr)
read_raw_counts_sendto(t) ==
  /\ CanCall(t)
  /\ ops' = ops + 1
  /\ io' = [ io EXCEPT ![t] = << "sendto" >> ]
  /\ rcvd' = [ rcvd EXCEPT ![t] = << >> ]
  /\ \E r \in SendtoResults(self.sock) :
       IF r = "sent"
         THEN /\ toSensor' =
                   Append(toSensor, [ bytes |-> self.command, req |-> ops + 1,
                                      thread |-> t ])
              /\ pc' = [ pc EXCEPT ![t] = "recvfrom" ]
              /\ ret' = [ ret EXCEPT ![t] = Pending("read_raw_counts") ]
              /\ UNCHANGED log
         ELSE /\ Ends(t, Raised("read_raw_counts", "OSError", r, << >>))
              /\ UNCHANGED << toSensor, pc >>
  /\ UNCHANGED << threads, self, rxq, biased, tcpVars >>

\* read_raw_counts_recvfrom, were a response of the wrong length answered
\* by a second request instead of the exception
read_raw_counts_recvfrom_retry(t) ==
  /\ t \in threads
  /\ pc[t] = "recvfrom"
  /\ rxq # << >>
  /\ rxq' = Tail(rxq)
  /\ rcvd' = [ rcvd EXCEPT ![t] = << Head(rxq) >> ]
  /\ IF InvalidLength(Recvfrom(Head(rxq).bytes, RDT_LEN))
       THEN /\ io' = [ io EXCEPT ![t] = @ \o << "recvfrom", "sendto" >> ]
            /\ toSensor' =
                 Append(toSensor, [ bytes |-> self.command, req |-> ops,
                                    thread |-> t ])
            /\ UNCHANGED << pc, ret, log >>
       ELSE /\ io' = [ io EXCEPT ![t] = Append(@, "recvfrom") ]
            /\ Ends(t, ReadResult(Recvfrom(Head(rxq).bytes, RDT_LEN)))
            /\ pc' = [ pc EXCEPT ![t] = "idle" ]
            /\ UNCHANGED toSensor
  /\ UNCHANGED << threads, self, biased, tcpVars, ops >>

\* read_raw_counts_recvfrom, were a response matched to the request it
\* answers: the call takes the oldest datagram that answers its thread
read_raw_counts_recvfrom_matching(t) ==
  /\ t \in threads
  /\ pc[t] = "recvfrom"
  /\ \E i \in DOMAIN rxq :
       /\ rxq[i].thread = t
       /\ \A j \in 1..(i - 1) : rxq[j].thread # t
       /\ rxq' = SubSeq(rxq, 1, i - 1) \o SubSeq(rxq, i + 1, Len(rxq))
       /\ rcvd' = [ rcvd EXCEPT ![t] = << rxq[i] >> ]
       /\ Ends(t, ReadResult(Recvfrom(rxq[i].bytes, RDT_LEN)))
  /\ io' = [ io EXCEPT ![t] = Append(@, "recvfrom") ]
  /\ pc' = [ pc EXCEPT ![t] = "idle" ]
  /\ UNCHANGED << threads, self, toSensor, biased, tcpVars, ops >>

\* read_raw_counts_recvfrom, were the socket closed on a response of the
\* wrong length
read_raw_counts_recvfrom_closing(t) ==
  /\ t \in threads
  /\ pc[t] = "recvfrom"
  /\ rxq # << >>
  /\ rxq' = Tail(rxq)
  /\ io' = [ io EXCEPT ![t] = Append(@, "recvfrom") ]
  /\ rcvd' = [ rcvd EXCEPT ![t] = << Head(rxq) >> ]
  /\ Ends(t, ReadResult(Recvfrom(Head(rxq).bytes, RDT_LEN)))
  /\ self' = IF InvalidLength(Recvfrom(Head(rxq).bytes, RDT_LEN))
               THEN [ self EXCEPT !.sock.closed = TRUE ]
               ELSE self
  /\ pc' = [ pc EXCEPT ![t] = "idle" ]
  /\ UNCHANGED << threads, toSensor, biased, tcpVars, ops >>

\* lines 18-21: recvfrom returns a datagram of the receive queue
read_raw_counts_recvfrom(t) ==
  /\ t \in threads
  /\ pc[t] = "recvfrom"
  /\ rxq # << >>
  /\ rxq' = Tail(rxq)
  /\ io' = [ io EXCEPT ![t] = Append(@, "recvfrom") ]
  /\ rcvd' = [ rcvd EXCEPT ![t] = << Head(rxq) >> ]
  /\ Ends(t, ReadResult(Recvfrom(Head(rxq).bytes, RDT_LEN)))
  /\ pc' = [ pc EXCEPT ![t] = "idle" ]
  /\ UNCHANGED << threads, self, toSensor, biased, tcpVars, ops >>

\* line 18: recvfrom raises
read_raw_counts_recvfrom_error(t) ==
  /\ t \in threads
  /\ pc[t] = "recvfrom"
  /\ \E e \in RecvfromErrors(self.sock) :
       Ends(t, Raised("read_raw_counts", "OSError", e, << >>))
  /\ io' = [ io EXCEPT ![t] = Append(@, "recvfrom") ]
  /\ pc' = [ pc EXCEPT ![t] = "idle" ]
  /\ UNCHANGED << threads, self, rcvd, toSensor, rxq, biased, tcpVars, ops >>

(***************************************************************************)
(* ATISensor.read_ft                                                       *)
(***************************************************************************)
Abs(n) == IF n < 0 THEN -n ELSE n

RECURSIVE Gcd(_, _)
Gcd(a, b) == IF b = 0 THEN a ELSE Gcd(b, a % b)

\* TrueDiv, were the division of lines 26-31 a // b
FloorDiv(a, b) ==
  [ num |-> (IF b < 0 THEN -a ELSE a) \div Abs(b), den |-> 1 ]

\* a / b of Python for b # 0: the quotient as a number that need not be an
\* integer, written as the fraction in lowest terms with den > 0
TrueDiv(a, b) ==
  [ num |-> (IF b < 0 THEN -a ELSE a) \div Gcd(Abs(a), Abs(b)),
    den |-> Abs(b) \div Gcd(Abs(a), Abs(b)) ]

\* lines 26-33
Scaled(raw_counts, cf, ct) ==
  << TrueDiv(raw_counts[1], cf), TrueDiv(raw_counts[2], cf),
     TrueDiv(raw_counts[3], cf), TrueDiv(raw_counts[4], ct),
     TrueDiv(raw_counts[5], ct), TrueDiv(raw_counts[6], ct) >>

\* lines 24-33, on how read_raw_counts ended: its exception goes on to the
\* caller; its counts are divided, which raises on a divisor of zero
FtResult(raw, cf, ct) ==
  IF raw.kind # "returned"
    THEN [ raw EXCEPT !.op = "read_ft" ]
    ELSE IF cf = 0 \/ ct = 0
      THEN Raised("read_ft", "ZeroDivisionError", "division by zero", << >>)
      ELSE [ Returned("read_ft") EXCEPT
               !.counts = raw.counts,
               !.value = << Scaled(raw.counts, cf, ct) >> ]

\* lines 24 and 17: read_raw_counts is called and sends the request
read_ft_sendto(t) ==
  /\ CanCall(t)
  /\ ops' = ops + 1
  /\ io' = [ io EXCEPT ![t] = << "sendto" >> ]
  /\ rcvd' = [ rcvd EXCEPT ![t] = << >> ]
  /\ \E r \in SendtoResults(self.sock) :
       IF r = "sent"
         THEN /\ toSensor' =
                   Append(toSensor, [ bytes |-> self.command, req |-> ops + 1,
                                      thread |-> t ])
              /\ pc' = [ pc EXCEPT ![t] = "ft_recvfrom" ]
              /\ ret' = [ ret EXCEPT ![t] = Pending("read_ft") ]
              /\ UNCHANGED log
         ELSE /\ Ends(t, Raised("read_ft", "OSError", r, << >>))
              /\ UNCHANGED << toSensor, pc >>
  /\ UNCHANGED << threads, self, rxq, biased, tcpVars >>

\* lines 18-21 and 26-33: recvfrom returns a datagram, read_raw_counts ends
\* and read_ft goes on from how it ended
read_ft_recvfrom(t) ==
  /\ t \in threads
  /\ pc[t] = "ft_recvfrom"
  /\ rxq # << >>
  /\ rxq' = Tail(rxq)
  /\ io' = [ io EXCEPT ![t] = Append(@, "recvfrom") ]
  /\ rcvd' = [ rcvd EXCEPT ![t] = << Head(rxq) >> ]
  /\ Ends(t, FtResult(ReadResult(Recvfrom(Head(rxq).bytes, RDT_LEN)),
                      self.counts_per_force, self.counts_per_torque))
  /\ pc' = [ pc EXCEPT ![t] = "idle" ]
  /\ UNCHANGED << threads, self, toSensor, biased, tcpVars, ops >>

\* line 18, called from line 24: recvfrom raises
read_ft_recvfrom_error(t) ==
  /\ t \in threads
  /\ pc[t] = "ft_recvfrom"
  /\ \E e \in RecvfromErrors(self.sock) :
       Ends(t, FtResult(Raised("read_raw_counts", "OSError", e, << >>),
                        self.counts_per_force, self.counts_per_torque))
  /\ io' = [ io EXCEPT ![t] = Append(@, "recvfrom") ]
  /\ pc' = [ pc EXCEPT ![t] = "idle" ]
  /\ UNCHANGED << threads, self, rcvd, toSensor, rxq, biased, tcpVars, ops >>

(***************************************************************************)
(* ATISensor.bias_current_value                                            *)
(***************************************************************************)
\* BiasResult, were sendto called outside the try statement
BiasResult_raising(r) ==
  IF r = "sent"
    THEN [ Returned("bias_current_value") EXCEPT !.out = "[Bias] Sent" ]
    ELSE Raised("bias_current_value", "OSError", r, << >>)

\* lines 41-45: the try statement, on what sendto did
BiasResult(r) ==
  IF r = "sent"
    THEN [ Returned("bias_current_value") EXCEPT !.out = "[Bias] Sent" ]
    ELSE [ Returned("bias_current_value") EXCEPT !.out = "[Bias Error]", !.msg = r ]

bias_current_value(t) ==
  /\ CanCall(t)
  /\ ops' = ops + 1
  /\ io' = [ io EXCEPT ![t] = << "sendto" >> ]
  /\ rcvd' = [ rcvd EXCEPT ![t] = << >> ]
  /\ \E r \in SendtoResults(self.sock) :
       /\ toSensor' =
            IF r = "sent"
              THEN Append(toSensor, [ bytes |-> BIAS_CMD, req |-> ops + 1,
                                      thread |-> t ])
              ELSE toSensor
       /\ Ends(t, BiasResult(r))
  /\ UNCHANGED << threads, self, pc, rxq, biased, tcpVars >>

(***************************************************************************)
(* ATISensor.close                                                         *)
(***************************************************************************)
\* socket.close(): releases the descriptor; a closed socket stays closed
SocketClose(s) == [ s EXCEPT !.closed = TRUE ]

\* close, were closing a closed socket an error
close_once(t) ==
  /\ CanCall(t)
  /\ ops' = ops + 1
  /\ self' = [ self EXCEPT !.sock = SocketClose(@) ]
  /\ io' = [ io EXCEPT ![t] = << >> ]
  /\ rcvd' = [ rcvd EXCEPT ![t] = << >> ]
  /\ Ends(t, IF self.sock.closed
               THEN Raised("close", "OSError", "EBADF", << >>)
               ELSE Returned("close"))
  /\ UNCHANGED << threads, pc, toSensor, rxq, biased, tcpVars >>

\* line 48: self.sock.close()
close(t) ==
  /\ CanCall(t)
  /\ ops' = ops + 1
  /\ self' = [ self EXCEPT !.sock = SocketClose(@) ]
  /\ io' = [ io EXCEPT ![t] = << >> ]
  /\ rcvd' = [ rcvd EXCEPT ![t] = << >> ]
  /\ Ends(t, Returned("close"))
  /\ UNCHANGED << threads, pc, toSensor, rxq, biased, tcpVars >>

(***************************************************************************)
(* The sensor and the network between.                                     *)
(***************************************************************************)
\* the sensor answers an RDT request (command 2) with a datagram
SensorReply ==
  /\ toSensor # << >>
  /\ UnpackH(SubSeq(Head(toSensor).bytes, 3, 4)) = 2
  /\ toSensor' = Tail(toSensor)
  /\ \E d \in Responses :
       rxq' = Append(rxq, [ bytes |-> d, req |-> Head(toSensor).req,
                            thread |-> Head(toSensor).thread ])
  /\ UNCHANGED << threads, self, pc, ret, io, rcvd, biased, tcpVars, ops, log >>

\* the sensor takes a bias command (0x42) and sends nothing back
SensorBias ==
  /\ toSensor # << >>
  /\ UnpackH(SubSeq(Head(toSensor).bytes, 3, 4)) = 66
  /\ toSensor' = Tail(toSensor)
  /\ biased' = TRUE
  /\ UNCHANGED << threads, self, pc, ret, io, rcvd, rxq, tcpVars, ops, log >>

\* a datagram is lost on the way
Lose ==
  /\ toSensor # << >>
  /\ toSensor' = Tail(toSensor)
  /\ UNCHANGED << threads, self, pc, ret, io, rcvd, rxq, biased, tcpVars, ops, log >>

(***************************************************************************)
(* The calibration port: what the peer delivers on an accepted connection  *)
(* before it closes it.  A well-formed response is 24 bytes.               *)
(***************************************************************************)
CAL_LEN == 24

\* struct.pack('>HBBII6H', ...) on the sensor's side
CalRecord(header, force_unit, torque_unit, cpf, cpt, sf) ==
  PackH(header) \o PackB(force_unit) \o PackB(torque_unit)
    \o PackI(cpf) \o PackI(cpt)
    \o PackH(sf[1]) \o PackH(sf[2]) \o PackH(sf[3])
    \o PackH(sf[4]) \o PackH(sf[5]) \o PackH(sf[6])

\* header tags the peer may send: 0x1234 and 0x0034
CalHeaders == {4660, 52}

CalRecords ==
  { CalRecord(h, 2, 3, 1000000, 1000, << 100, 200, 300, 400, 500, 65535 >>) :
      h \in CalHeaders }

\* bytes the peer delivers before it closes: none, a part, all, and more
CalLens == {0, 10, 24, 28}

CalStreams == { Take(r \o Trailer, n) : r \in CalRecords, n \in CalLens }

\* the sizes of the packets the peer's bytes arrive in
ChunkSizes == {10, 24}

(***************************************************************************)
(* Python's formatting of the values the exceptions name.                  *)
(***************************************************************************)
Digits ==
  << "0", "1", "2", "3", "4", "5", "6", "7", "8", "9", "a", "b", "c", "d",
     "e", "f" >>

RECURSIVE InBase(_, _)
InBase(n, base) ==
  IF n < base
    THEN << Digits[n + 1] >>
    ELSE InBase(n \div base, base) \o << Digits[(n % base) + 1] >>

\* hex(n), n >= 0
hex(n) == << "0", "x" >> \o InBase(n, 16)

\* str(n), n >= 0
str(n) == InBase(n, 10)

(***************************************************************************)
(* ATISensor.read_calibration_info                                         *)
(***************************************************************************)
\* line 55: struct.pack('>B19x', 1)
cmd == PackB(1) \o [ i \in 1..19 |-> 0 ]

\* line 63: struct.unpack('>HBBII6H', response)
UnpackCal(r) ==
  [ header |-> UnpackH(SubSeq(r, 1, 2)),
    force_unit |-> r[3],
    torque_unit |-> r[4],
    cpf |-> UnpackU(SubSeq(r, 5, 8)),
    cpt |-> UnpackU(SubSeq(r, 9, 12)),
    scale_factors |-> [ i \in 1..6 |-> UnpackH(SubSeq(r, 11 + 2 * i, 12 + 2 * i)) ] ]

\* line 59
ShortRead(response) == Len(response) # CAL_LEN

\* InvalidHeader, were the header not tested
InvalidHeader_untested(header) == FALSE

\* line 64
InvalidHeader(header) == header # 4660

\* lines 67-73
CalInfo(u) ==
  [ force_unit_code |-> u.force_unit,
    torque_unit_code |-> u.torque_unit,
    counts_per_force |-> u.cpf,
    counts_per_torque |-> u.cpt,
    scale_factors |-> u.scale_factors ]

\* CalResult, were the length not tested: struct.unpack raises struct.error
\* on a buffer that is not 24 bytes long
CalResult_unchecked(response) ==
  IF Len(response) # CAL_LEN
    THEN Raised("read_calibration_info", "struct.error",
                "unpack requires a buffer of 24 bytes", << >>)
    ELSE IF InvalidHeader(UnpackCal(response).header)
      THEN Raised("read_calibration_info", "RuntimeError",
                  "Invalid header: ", hex(UnpackCal(response).header))
      ELSE [ Returned("read_calibration_info") EXCEPT
               !.info = << CalInfo(UnpackCal(response)) >> ]

\* lines 59-73, on what recv_all returned
CalResult(response) ==
  IF ShortRead(response)
    THEN Raised("read_calibration_info", "RuntimeError",
                "Invalid response length: ", str(Len(response)))
    ELSE IF InvalidHeader(UnpackCal(response).header)
      THEN Raised("read_calibration_info", "RuntimeError",
                  "Invalid header: ", hex(UnpackCal(response).header))
      ELSE [ Returned("read_calibration_info") EXCEPT
               !.info = << CalInfo(UnpackCal(response)) >> ]

\* WithExit, were the socket created without the with statement and never
\* closed
WithExit_leak(s) == s

\* the with statement's exit, on return and on exception: sock.close()
WithExit(s) == [ s EXCEPT !.state = "closed" ]

\* connect, on a socket with timeout tmo
ConnectResults(tmo) ==
  {"connected", "ECONNREFUSED"} \cup (IF tmo = None THEN {} ELSE {"timed out"})

\* the errors a recv may end with, on a socket with timeout tmo
RecvErrors(tmo) ==
  {"ECONNRESET"} \cup (IF tmo = None THEN {} ELSE {"timed out"})

\* the call of thread t leaves the with statement with outcome o: the
\* socket is closed, and with it what the peer had still to deliver
Leave(t, o) ==
  /\ tcp' = WithExit(tcp)
  /\ stream' = << >>
  /\ data' = << >>
  /\ Ends(t, o)
  /\ pc' = [ pc EXCEPT ![t] = "idle" ]

\* the caller assigns the attribute ip, which line 53 reads and __init__
\* does not assign
assign_ip(t) ==
  /\ t \in threads
  /\ pc[t] = "idle"
  /\ "ip" \notin DOMAIN self
  /\ self' = [ a \in DOMAIN self \cup {"ip"} |->
                 IF a = "ip" THEN SensorIp ELSE self[a] ]
  /\ UNCHANGED << threads, rdtVars, tcpVars, ops, log >>

\* lines 51-52: the socket is created and given the timeout
read_calibration_info(t) ==
  /\ CanCall(t)
  /\ ops' = ops + 1
  /\ tcp' = [ state |-> "open", timeout |-> << self.timeout >> ]
  /\ stream' = << >>
  /\ data' = << >>
  /\ io' = [ io EXCEPT ![t] = << >> ]
  /\ rcvd' = [ rcvd EXCEPT ![t] = << >> ]
  /\ ret' = [ ret EXCEPT ![t] = Pending("read_calibration_info") ]
  /\ pc' = [ pc EXCEPT ![t] = "Connecting" ]
  /\ UNCHANGED << threads, self, toSensor, rxq, biased, log >>

\* line 53: sock.connect((self.ip, self.tcp_port))
read_calibration_info_connect(t) ==
  /\ t \in threads
  /\ pc[t] = "Connecting"
  /\ IF "ip" \notin DOMAIN self
       THEN /\ Leave(t, Raised("read_calibration_info", "AttributeError",
                               "'ATISensor' object has no attribute 'ip'", << >>))
            /\ UNCHANGED io
       ELSE /\ io' = [ io EXCEPT ![t] = Append(@, "connect") ]
            /\ \E r \in ConnectResults(tcp.timeout) :
                 IF r = "connected"
                   THEN /\ tcp' = [ tcp EXCEPT !.state = "connected" ]
                        /\ stream' \in CalStreams
                        /\ pc' = [ pc EXCEPT ![t] = "Sending" ]
                        /\ UNCHANGED << ret, log, data >>
                   ELSE Leave(t, Raised("read_calibration_info", "OSError",
                                        r, << >>))
  /\ UNCHANGED << threads, self, rcvd, toSensor, rxq, biased, ops >>

\* lines 55-56: sock.sendall(cmd)
read_calibration_info_sendall(t) ==
  /\ t \in threads
  /\ pc[t] = "Sending"
  /\ io' = [ io EXCEPT ![t] = Append(@, "sendall") ]
  /\ \E r \in {"sent", "EPIPE"} :
       IF r = "sent"
         THEN /\ pc' = [ pc EXCEPT ![t] = "Receiving" ]
              /\ UNCHANGED << tcp, ret, log, stream, data >>
         ELSE Leave(t, Raised("read_calibration_info", "OSError", r, << >>))
  /\ UNCHANGED << threads, self, rcvd, toSensor, rxq, biased, ops >>

(***************************************************************************)
(* ATISensor.recv_all                                                      *)
(***************************************************************************)
\* sock.recv(n): the packets it may return when the peer has still to
\* deliver the bytes s before closing; the empty packet when it has closed
RecvPackets(s, n) ==
  IF s = << >>
    THEN { << >> }
    ELSE { Take(s, IF k < n THEN k ELSE n) : k \in ChunkSizes }

\* line 97: the loop goes on
MoreToRead(d, length) == Len(d) < length

\* recv_all, were every recv asked for length bytes
recv_all_whole(t) ==
  /\ t \in threads
  /\ pc[t] = "Receiving"
  /\ MoreToRead(data, CAL_LEN)
  /\ io' = [ io EXCEPT ![t] = Append(@, "recv") ]
  /\ \E packet \in RecvPackets(stream, CAL_LEN) :
       /\ stream' = Drop(stream, Len(packet))
       /\ data' = data \o packet
       /\ pc' = [ pc EXCEPT ![t] =
                    IF packet = << >> \/ ~MoreToRead(data \o packet, CAL_LEN)
                      THEN "Decoding"
                      ELSE "Receiving" ]
  /\ UNCHANGED << threads, self, ret, rcvd, toSensor, rxq, biased, tcp, ops,
                  log >>

\* lines 97-101: one turn of the loop, taken while the call is Receiving;
\* the loop ends on an empty packet or with length bytes
recv_all(t) ==
  /\ t \in threads
  /\ pc[t] = "Receiving"
  /\ MoreToRead(data, CAL_LEN)
  /\ io' = [ io EXCEPT ![t] = Append(@, "recv") ]
  /\ \E packet \in RecvPackets(stream, CAL_LEN - Len(data)) :
       /\ stream' = Drop(stream, Len(packet))
       /\ data' = data \o packet
       /\ pc' = [ pc EXCEPT ![t] =
                    IF packet = << >> \/ ~MoreToRead(data \o packet, CAL_LEN)
                      THEN "Decoding"
                      ELSE "Receiving" ]
  /\ UNCHANGED << threads, self, ret, rcvd, toSensor, rxq, biased, tcp, ops,
                  log >>

\* recv_all_error, were a failed recv answered by connecting again
recv_all_error_retry(t) ==
  /\ t \in threads
  /\ pc[t] = "Receiving"
  /\ io' = [ io EXCEPT ![t] = Append(@, "recv") ]
  /\ tcp' = [ tcp EXCEPT !.state = "open" ]
  /\ stream' = << >>
  /\ data' = << >>
  /\ pc' = [ pc EXCEPT ![t] = "Connecting" ]
  /\ UNCHANGED << threads, self, ret, rcvd, toSensor, rxq, biased, ops, log >>

\* line 98: recv raises
recv_all_error(t) ==
  /\ t \in threads
  /\ pc[t] = "Receiving"
  /\ io' = [ io EXCEPT ![t] = Append(@, "recv") ]
  /\ \E e \in RecvErrors(tcp.timeout) :
       Leave(t, Raised("read_calibration_info", "OSError", e, << >>))
  /\ UNCHANGED << threads, self, rcvd, toSensor, rxq, biased, ops >>

\* lines 58-73: recv_all has returned data
read_calibration_info_decode(t) ==
  /\ t \in threads
  /\ pc[t] = "Decoding"
  /\ Leave(t, CalResult(data))
  /\ rcvd' = [ rcvd EXCEPT ![t] = << data >> ]
  /\ UNCHANGED << threads, self, io, toSensor, rxq, biased, ops >>

(***************************************************************************)
(* ATISensor.describe_units                                                *)
(***************************************************************************)
\* lines 76-78, the dictionary as a function of its keys 1..6
force_units ==
  << "Pound", "Newton", "Kilopound", "Kilonewton", "Kilogram", "Gram" >>

\* lines 79-82
torque_units ==
  << "Pound-inch", "Pound-foot", "Newton-meter", "Newton-millimeter",
     "Kilogram-centimeter", "Kilonewton-meter" >>

\* dict.get(key, default)
DictGet(d, key, default) == IF key \in DOMAIN d THEN d[key] ELSE default

\* DescribeUnits, were the two tables taken for one another
DescribeUnits_swapped(code, is_force) ==
  IF is_force
    THEN DictGet(torque_units, code, "Unknown")
    ELSE DictGet(force_units, code, "Unknown")

\* line 83
DescribeUnits(code, is_force) ==
  IF is_force
    THEN DictGet(force_units, code, "Unknown")
    ELSE DictGet(torque_units, code, "Unknown")

\* the unit codes a caller may ask for: the values of the one-byte fields
\* of the calibration response
UnitCodes == 0..255

describe_units(t) ==
  /\ CanCall(t)
  /\ ops' = ops + 1
  /\ io' = [ io EXCEPT ![t] = << >> ]
  /\ rcvd' = [ rcvd EXCEPT ![t] = << >> ]
  /\ \E code \in UnitCodes, is_force \in BOOLEAN :
       Ends(t, [ Returned("describe_units") EXCEPT
                   !.args = << code, is_force >>,
                   !.value = << DescribeUnits(code, is_force) >> ])
  /\ UNCHANGED << threads, self, pc, toSensor, rxq, biased, tcpVars >>

NextUnits == \E t \in Threads : describe_units(t)

\* a caller that looks unit codes up
SpecUnits == Init /\ [][NextUnits]_vars

NextCal ==
  \/ \E t \in Threads : assign_ip(t)
  \/ \E t \in Threads : read_calibration_info(t)
  \/ \E t \in Threads : read_calibration_info_connect(t)
  \/ \E t \in Threads : read_calibration_info_sendall(t)
  \/ \E t \in Threads : recv_all(t)
  \/ \E t \in Threads : recv_all_error(t)
  \/ \E t \in Threads : read_calibration_info_decode(t)

NextRdt ==
  \/ \E t \in Threads : read_raw_counts_sendto(t)
  \/ \E t \in Threads : read_raw_counts_recvfrom(t)
  \/ \E t \in Threads : read_raw_counts_recvfrom_error(t)
  \/ \E t \in Threads : bias_current_value(t)
  \/ \E t \in Threads : close(t)
  \/ SensorReply
  \/ SensorBias
  \/ Lose

Next == NextRdt \/ NextCal

\* the scale factors a caller may construct the client with
AnyForceScales == {1000000, 0, -1000000}

AnyTorqueScales == {1000, 0}

\* the constructor takes the scale factors as they are given
InitFt ==
  /\ threads = {1}
  /\ \E cf \in AnyForceScales, ct \in AnyTorqueScales :
       self = ATISensor(SensorIp, cf, ct)
  /\ pc = [ t \in Threads |-> "idle" ]
  /\ ret = [ t \in Threads |-> NoCall ]
  /\ io = [ t \in Threads |-> << >> ]
  /\ rcvd = [ t \in Threads |-> << >> ]
  /\ toSensor = << >>
  /\ rxq = << >>
  /\ biased = FALSE
  /\ tcp = NoTcp
  /\ stream = << >>
  /\ data = << >>
  /\ ops = 0
  /\ log = << >>

\* two threads call read_raw_counts on one client, with no lock
InitConc ==
  /\ threads = {1, 2}
  /\ \E cf \in ForceScales, ct \in TorqueScales :
       self = ATISensor(SensorIp, cf, ct)
  /\ pc = [ t \in Threads |-> "idle" ]
  /\ ret = [ t \in Threads |-> NoCall ]
  /\ io = [ t \in Threads |-> << >> ]
  /\ rcvd = [ t \in Threads |-> << >> ]
  /\ toSensor = << >>
  /\ rxq = << >>
  /\ biased = FALSE
  /\ tcp = NoTcp
  /\ stream = << >>
  /\ data = << >>
  /\ ops = 0
  /\ log = << >>

\* the exchange of read_raw_counts on a network that loses nothing and
\* raises nothing
NextConc ==
  \/ \E t \in Threads : read_raw_counts_sendto(t)
  \/ \E t \in Threads : read_raw_counts_recvfrom(t)
  \/ SensorReply

SpecConc == InitConc /\ [][NextConc]_vars

NextFt ==
  \/ \E t \in Threads : read_ft_sendto(t)
  \/ \E t \in Threads : read_ft_recvfrom(t)
  \/ \E t \in Threads : read_ft_recvfrom_error(t)
  \/ SensorReply
  \/ Lose

\* the polling loop of a caller: read_ft, again and again
SpecFt == InitFt /\ [][NextFt]_vars

Spec == Init /\ [][Next]_vars

(***************************************************************************)
(* The client's threads run: a call in progress takes its next step when   *)
(* the step can be taken.  Nothing is assumed of the sensor or the         *)
(* network.                                                                *)
(***************************************************************************)
ClientStep(t) ==
  \/ read_raw_counts_recvfrom(t)
  \/ read_calibration_info_connect(t)
  \/ read_calibration_info_sendall(t)
  \/ recv_all(t)
  \/ read_calibration_info_decode(t)

LiveSpec == Init /\ [][Next]_vars /\ \A t \in Threads : WF_vars(ClientStep(t))

\* a caller that uses every operation of the client, and a sensor that
\* answers
NextAll ==
  \/ \E t \in Threads : read_raw_counts_sendto(t)
  \/ \E t \in Threads : read_raw_counts_recvfrom(t)
  \/ \E t \in Threads : read_ft_sendto(t)
  \/ \E t \in Threads : read_ft_recvfrom(t)
  \/ \E t \in Threads : bias_current_value(t)
  \/ \E t \in Threads : close(t)
  \/ SensorReply
  \/ SensorBias
  \/ NextCal

SpecAll == Init /\ [][NextAll]_vars

\* the blocking calls of a calibration query end: connect, sendall and
\* recv return or raise (the socket has a timeout), and the code between
\* them runs
CalStep(t) ==
  \/ read_calibration_info_connect(t)
  \/ read_calibration_info_sendall(t)
  \/ recv_all(t)
  \/ read_calibration_info_decode(t)

\* a caller that queries the calibration port, again and again
LiveCal == Init /\ [][NextCal]_vars /\ \A t \in Threads : WF_vars(CalStep(t))

(***************************************************************************)
(* Properties.                                                             *)
(***************************************************************************)
CalPhases == {"Connecting", "Sending", "Receiving", "Decoding"}

Last(s) == s[Len(s)]

\* the number a sequence of digit characters writes in a base
RECURSIVE Value(_, _)
Value(cs, base) ==
  IF cs = << >>
    THEN 0
    ELSE Value(SubSeq(cs, 1, Len(cs) - 1), base) * base
           + (CHOOSE v \in 0..15 : Digits[v + 1] = Last(cs))

\* C1: a read_raw_counts call that received a datagram the sensor sent
\* with a length other than 36 bytes has failed with the length error and
\* returned no counts.
C1_BadLengthRejected ==
  \A t \in Threads :
    ( /\ ret[t].op = "read_raw_counts"
      /\ rcvd[t] # << >>
      /\ Len(rcvd[t][1].bytes) # 36 )
    => ( /\ ret[t].kind = "RuntimeError"
         /\ ret[t].msg = "Invalid ATI response length"
         /\ ret[t].counts = << >> )

\* C2: a read_raw_counts call that waits for its response eventually ends.
C2_ReadTerminates ==
  \A t \in Threads : (pc[t] = "recvfrom") ~> (pc[t] = "idle")

\* C3: on a client as the constructor built it (no attribute assigned
\* since), a read_calibration_info call that has ended has returned the
\* calibration info, unless the connection or the response failed it: it
\* fails for nothing but what the sensor or the network did.
C3_ConstructedClientQuery ==
  \A t \in Threads :
    ( /\ ret[t].op = "read_calibration_info"
      /\ ret[t].kind # "pending"
      /\ DOMAIN self = DOMAIN ATISensor(SensorIp, 0, 0) )
    => ret[t].kind \in {"returned", "OSError", "RuntimeError"}

\* C4: the calibration socket is open while a query is in progress and at
\* no other time: every way out of read_calibration_info closes it.
C4_ConnectionClosed ==
  IF \E t \in Threads : pc[t] \in CalPhases
    THEN tcp.state \in {"open", "connected"}
    ELSE tcp.state \in {"none", "closed"}

\* a query has failed on a bad response, and the query made right after it
\* has connected, received and returned
C4_Witness ==
  /\ Len(log) >= 2
  /\ log[Len(log) - 1].op = "read_calibration_info"
  /\ log[Len(log) - 1].kind = "RuntimeError"
  /\ Last(log).op = "read_calibration_info"
  /\ Last(log).kind = "returned"
  /\ tcp.state = "closed"

\* C5: a read_raw_counts or bias_current_value call made after close() has
\* failed with an error of its own kind: it has neither returned nor
\* raised the transport's OSError.
C5_ClosedErrorAfterClose ==
  \A i, j \in DOMAIN log :
    ( /\ i < j
      /\ log[i].op = "close"
      /\ log[j].op \in {"read_raw_counts", "bias_current_value"} )
    => log[j].kind \notin {"returned", "OSError"}

\* C6: every close() call has returned without an error, and once close()
\* has been called the UDP socket is the socket one close() leaves, however
\* many calls followed.
C6_CloseIdempotent ==
  \A i \in DOMAIN log :
    log[i].op = "close"
    => ( /\ log[i].kind = "returned"
         /\ self.sock = [ closed |-> TRUE, timeout |-> None ] )

\* close() has been called twice in a row
C6_Witness ==
  /\ Len(log) >= 2
  /\ log[Len(log) - 1].op = "close"
  /\ Last(log).op = "close"

\* C7: a read_calibration_info call that received 24 bytes whose first two
\* are not 0x12 0x34 has raised "Invalid header: " with the hexadecimal
\* writing of those two bytes' value, and returned no info.
C7_BadHeaderRejected ==
  \A t \in Threads :
    ( /\ ret[t].op = "read_calibration_info"
      /\ rcvd[t] # << >>
      /\ Len(rcvd[t][1]) = 24
      /\ << rcvd[t][1][1], rcvd[t][1][2] >> # << 18, 52 >> )
    => ( /\ ret[t].kind = "RuntimeError"
         /\ ret[t].msg = "Invalid header: "
         /\ SubSeq(ret[t].arg, 1, 2) = << "0", "x" >>
         /\ Value(SubSeq(ret[t].arg, 3, Len(ret[t].arg)), 16)
              = rcvd[t][1][1] * 256 + rcvd[t][1][2]
         /\ ret[t].info = << >> )

\* a query has received 24 bytes with header 0x0034 and ended
C7_Witness ==
  /\ ret[1].op = "read_calibration_info"
  /\ rcvd[1] # << >>
  /\ Len(rcvd[1][1]) = 24
  /\ << rcvd[1][1][1], rcvd[1][1][2] >> = << 0, 52 >>
  /\ ret[1].arg = << "0", "x", "3", "4" >>

\* C8: a read_calibration_info call whose recv_all returned fewer than 24
\* bytes (the peer closed first) has raised "Invalid response length: "
\* with the number of bytes received, and returned no info.
C8_ShortReadRejected ==
  \A t \in Threads :
    ( /\ ret[t].op = "read_calibration_info"
      /\ rcvd[t] # << >>
      /\ Len(rcvd[t][1]) < 24 )
    => ( /\ ret[t].kind = "RuntimeError"
         /\ ret[t].msg = "Invalid response length: "
         /\ Value(ret[t].arg, 10) = Len(rcvd[t][1])
         /\ ret[t].info = << >> )

\* a query has received 10 bytes, then the peer's close, and ended
C8_Witness ==
  /\ ret[1].op = "read_calibration_info"
  /\ rcvd[1] # << >>
  /\ Len(rcvd[1][1]) = 10
  /\ ret[1].kind = "RuntimeError"

\* C9: a bias_current_value call that has put no datagram on the network
\* (its sendto failed) returns all the same, having printed the error, and
\* leaves the client and the socket's receive queue as they were.
C9_BiasNeverRaises ==
  [][ \A t \in Threads :
        ( /\ Len(log') = Len(log) + 1
          /\ Last(log').thread = t
          /\ Last(log').op = "bias_current_value"
          /\ toSensor' = toSensor )
        => ( /\ ret'[t].kind = "returned"
             /\ ret'[t].out = "[Bias Error]"
             /\ self' = self
             /\ pc' = pc
             /\ rxq' = rxq ) ]_vars

\* a bias command failed in the network on an open socket, and the read
\* made right after it returned counts
C9_Witness ==
  /\ Len(log) >= 2
  /\ log[Len(log) - 1].op = "bias_current_value"
  /\ log[Len(log) - 1].msg = "ENETUNREACH"
  /\ Last(log).op = "read_raw_counts"
  /\ Last(log).kind = "returned"

\* C10: a read_raw_counts call makes one sendto, then at most one recvfrom,
\* and is over once either has failed or the response is judged: it waits
\* only before its recvfrom, and no call has two requests on the network.
C10_OneSendOneReceive ==
  \A t \in Threads :
    ret[t].op = "read_raw_counts"
    => ( /\ io[t] \in { << "sendto" >>, << "sendto", "recvfrom" >> }
         /\ pc[t] \in {"idle", "recvfrom"}
         /\ (pc[t] = "recvfrom") = (ret[t].kind = "pending")
         /\ pc[t] = "recvfrom" => io[t] = << "sendto" >>
         /\ ret[t].kind \in {"returned", "RuntimeError"}
              => io[t] = << "sendto", "recvfrom" >>
         /\ \A i, j \in DOMAIN toSensor :
              toSensor[i].req = toSensor[j].req => i = j )

\* a call has received a response of the wrong length and ended
C10_Witness ==
  /\ ret[1].op = "read_raw_counts"
  /\ ret[1].kind = "RuntimeError"
  /\ io[1] = << "sendto", "recvfrom" >>
  /\ pc[1] = "idle"

\* C11: a read_ft call divides by strictly positive scale factors only: it
\* has not returned a reading on a client whose counts_per_force or
\* counts_per_torque is zero or negative.
C11_PositiveDivisors ==
  \A t \in Threads :
    (ret[t].op = "read_ft" /\ ret[t].kind = "returned")
    => (self.counts_per_force > 0 /\ self.counts_per_torque > 0)

\* C12: with positive scale factors, the reading read_ft returns is, axis by
\* axis, the quotient of the count read_raw_counts returned by
\* counts_per_force (Fx, Fy, Fz) or counts_per_torque (Tx, Ty, Tz), as a
\* fraction in lowest terms and not rounded to an integer; the counts
\* (1000000, 0, -500000, 0, 2000, 0) with 1000000 and 1000 give
\* (1, 0, -1/2, 0, 2, 0).
C12_RealDivision ==
  \A t \in Threads :
    ( /\ ret[t].op = "read_ft"
      /\ ret[t].kind = "returned"
      /\ self.counts_per_force > 0
      /\ self.counts_per_torque > 0 )
    => ( /\ Len(ret[t].value[1]) = 6
         /\ \A i \in 1..6 :
              LET q == ret[t].value[1][i]
                  c == IF i <= 3 THEN self.counts_per_force
                                 ELSE self.counts_per_torque
              IN  /\ q.den > 0
                  /\ q.num * c = ret[t].counts[i] * q.den
                  /\ Gcd(Abs(q.num), q.den) = 1
         /\ ( /\ ret[t].counts = << 1000000, 0, -500000, 0, 2000, 0 >>
              /\ self.counts_per_force = 1000000
              /\ self.counts_per_torque = 1000 )
            => ret[t].value[1] =
                 << [ num |-> 1, den |-> 1 ], [ num |-> 0, den |-> 1 ],
                    [ num |-> -1, den |-> 2 ], [ num |-> 0, den |-> 1 ],
                    [ num |-> 2, den |-> 1 ], [ num |-> 0, den |-> 1 ] >> )

\* read_ft has returned the reading of the counts
\* (1000000, 0, -500000, 0, 2000, 0) scaled by 1000000 and 1000
C12_Witness ==
  /\ ret[1].op = "read_ft"
  /\ ret[1].kind = "returned"
  /\ ret[1].counts = << 1000000, 0, -500000, 0, 2000, 0 >>
  /\ self.counts_per_force = 1000000
  /\ self.counts_per_torque = 1000
  /\ ret[1].value[1][3] = [ num |-> -1, den |-> 2 ]

\* C14: a read_ft call that has returned a reading (on a client with
\* positive scale factors) received, in this call, a response datagram of
\* 36 bytes.
C14_ReadingOnlyFromValidResponse ==
  \A t \in Threads :
    ( /\ ret[t].op = "read_ft"
      /\ ret[t].kind = "returned"
      /\ self.counts_per_force > 0
      /\ self.counts_per_torque > 0 )
    => (rcvd[t] # << >> /\ Len(rcvd[t][1].bytes) = 36)

\* the names lines 76-82 give the codes: code, is_force, name
DocumentedUnits ==
  { << 1, TRUE, "Pound" >>, << 2, TRUE, "Newton" >>,
    << 3, TRUE, "Kilopound" >>, << 4, TRUE, "Kilonewton" >>,
    << 5, TRUE, "Kilogram" >>, << 6, TRUE, "Gram" >>,
    << 1, FALSE, "Pound-inch" >>, << 2, FALSE, "Pound-foot" >>,
    << 3, FALSE, "Newton-meter" >>, << 4, FALSE, "Newton-millimeter" >>,
    << 5, FALSE, "Kilogram-centimeter" >>, << 6, FALSE, "Kilonewton-meter" >> }

\* C13: every describe_units call has returned: for a code in 1..6 the
\* name documented for the code in the force table (is_force) or the torque
\* table (not is_force), and "Unknown" for every other code.
C13_DescribeUnits ==
  \A t \in Threads :
    ret[t].op = "describe_units"
    => ( /\ ret[t].kind = "returned"
         /\ Len(ret[t].value) = 1
         /\ IF ret[t].args[1] \in 1..6
              THEN << ret[t].args[1], ret[t].args[2], ret[t].value[1] >>
                     \in DocumentedUnits
              ELSE ret[t].value[1] = "Unknown" )

\* a second lookup, of torque code 3, has returned Newton-meter
C13_Witness ==
  /\ Len(log) >= 2
  /\ ret[1].op = "describe_units"
  /\ ret[1].args = << 3, FALSE >>
  /\ ret[1].value = << "Newton-meter" >>

\* a code outside 1..6 was looked up in the torque table
C13_WitnessUnknown ==
  /\ ret[1].op = "describe_units"
  /\ ret[1].args = << 7, FALSE >>
  /\ ret[1].value = << "Unknown" >>

\* C15: nothing matches a response to a request: a read_raw_counts call
\* that receives takes the oldest datagram of the socket's queue, whichever
\* call's request that datagram answers; so with two threads a call can
\* return the response to the other thread's request (C15_Witness).
C15_NoCorrelation ==
  [][ \A t \in Threads :
        (pc[t] = "recvfrom" /\ pc'[t] = "idle" /\ rxq' # rxq)
        => ( /\ rxq' = Tail(rxq)
             /\ rcvd'[t] = << Head(rxq) >>
             /\ ret'[t] = ReadResult(Take(Head(rxq).bytes, 36)) ) ]_vars

\* a call has returned counts decoded from the datagram the sensor sent in
\* answer to the other thread's request, while that thread waits for it
C15_Witness ==
  \E t \in threads :
    /\ ret[t].op = "read_raw_counts"
    /\ ret[t].kind = "returned"
    /\ rcvd[t][1].thread # t
    /\ pc[rcvd[t][1].thread] = "recvfrom"

\* the state of the calibration query of thread t, in the words of the
\* state machine: the phase of the call in progress, or how the latest
\* call ended
CalState(t) ==
  IF pc[t] \in CalPhases
    THEN pc[t]
    ELSE IF ret[t].op = "read_calibration_info"
      THEN (IF ret[t].kind = "returned" THEN "Done" ELSE "Failed")
      ELSE "Idle"

\* the steps of the state machine: forward by one state, or to Failed
CalForward ==
  { << "Connecting", "Sending" >>, << "Sending", "Receiving" >>,
    << "Receiving", "Decoding" >>, << "Decoding", "Done" >> }
    \cup { << p, "Failed" >> : p \in CalPhases }

\* C16: a read_calibration_info call enters Connecting from Idle (or from
\* the end of the call before it) as a new call, then only moves forward by
\* one state or to Failed, and Done and Failed are left by a new call only;
\* and a call in progress eventually is Done or Failed.
C16_StateMachine ==
  /\ [][ \A t \in Threads :
           CalState(t)' # CalState(t)
           => \/ /\ CalState(t) \in {"Idle", "Done", "Failed"}
                 /\ CalState(t)' = "Connecting"
                 /\ ops' = ops + 1
              \/ << CalState(t), CalState(t)' >> \in CalForward ]_vars
  /\ \A t \in Threads :
       (CalState(t) \in CalPhases) ~> (CalState(t) \in {"Done", "Failed"})

\* a query is Done after connect, sendall and three recv
C16_Witness ==
  /\ CalState(1) = "Done"
  /\ io[1] = << "connect", "sendall", "recv", "recv", "recv" >>

\* C19: while recv_all runs, a recv appends what it returns, the next
\* bytes of the peer's stream, to data and never takes data beyond length;
\* the loop goes on with fewer than length bytes after a packet that is not
\* empty, and ends with exactly length bytes or, on the empty packet of the
\* peer's close, with the fewer bytes received before it; and it ends.
C19_RecvAll ==
  /\ [][ \A t \in Threads :
           (pc[t] = "Receiving" /\ pc'[t] \in {"Receiving", "Decoding"})
           => ( /\ data' \o stream' = data \o stream
                /\ Len(data') >= Len(data)
                /\ Len(data') <= CAL_LEN
                /\ pc'[t] = "Receiving"
                     => Len(data) < Len(data') /\ Len(data') < CAL_LEN
                /\ pc'[t] = "Decoding"
                     => \/ Len(data') = CAL_LEN
                        \/ data' = data /\ stream = << >> ) ]_vars
  /\ \A t \in Threads : (pc[t] = "Receiving") ~> (pc[t] # "Receiving")

\* recv_all has returned 24 bytes put together from three packets
C19_Witness ==
  /\ pc[1] = "Decoding"
  /\ Len(data) = 24
  /\ io[1] = << "connect", "sendall", "recv", "recv", "recv" >>

\* what the constructor fixes: the endpoint and the scale factors
Endpoint(sensor) ==
  << sensor.addr, sensor.tcp_port, sensor.timeout, sensor.counts_per_force,
     sensor.counts_per_torque >>

\* C17: a bias_current_value call is one sendto and no recvfrom: it puts
\* at most one datagram on the wire, the bytes 12 34 00 42 00 00 00 00,
\* and takes nothing from the receive queue; and no step of any operation
\* changes the address, the ports, the timeout or the scale factors.
C17_BiasAndFrame ==
  [][ /\ Endpoint(self)' = Endpoint(self)
      /\ (Len(log') = Len(log) + 1 /\ Last(log').op = "bias_current_value")
         => /\ io'[Last(log').thread] = << "sendto" >>
            /\ rxq' = rxq
            /\ \/ toSensor' = toSensor
               \/ /\ Len(toSensor') = Len(toSensor) + 1
                  /\ SubSeq(toSensor', 1, Len(toSensor)) = toSensor
                  /\ Last(toSensor').bytes = << 18, 52, 0, 66, 0, 0, 0, 0 >> ]_vars

\* a read_ft, a calibration query and a bias that was sent have been
\* called on one client, which still has the endpoint of its construction
C17_Witness ==
  /\ Len(log) = 3
  /\ { log[i].op : i \in 1..3 }
       = {"read_ft", "read_calibration_info", "bias_current_value"}
  /\ ret[1].op = "bias_current_value"
  /\ ret[1].out = "[Bias] Sent"
  /\ Endpoint(self) = Endpoint(ATISensor(SensorIp, 1000000, 1000))

\* C18: the step on which a read_raw_counts call fails, on the length of
\* the response or on an error of sendto or recvfrom, leaves the client
\* and its socket as they were and the thread free to call again; and a
\* read_raw_counts call begins with a sendto of its own.
C18_FailedReadKeepsClient ==
  [][ \A t \in Threads :
        /\ ( /\ Len(log') = Len(log) + 1
             /\ Last(log').thread = t
             /\ Last(log').op = "read_raw_counts"
             /\ Last(log').kind \in {"RuntimeError", "OSError"} )
           => /\ self' = self
              /\ pc'[t] = "idle"
        /\ (pc[t] = "idle" /\ pc'[t] = "recvfrom")
           => /\ io'[t] = << "sendto" >>
              /\ Len(toSensor') = Len(toSensor) + 1
              /\ Last(toSensor').bytes = command
              /\ Last(toSensor').req = ops' ]_vars

\* a read failed on the length of the response, and the next read on the
\* same client, socket open, sent its own request and returned the counts
\* of the response to it
C18_Witness ==
  /\ Len(log) = 2
  /\ log[1].op = "read_raw_counts" /\ log[1].kind = "RuntimeError"
  /\ log[1].msg = "Invalid ATI response length"
  /\ log[2].op = "read_raw_counts" /\ log[2].kind = "returned"
  /\ ~self.sock.closed
  /\ io[1] = << "sendto", "recvfrom" >>
  /\ rcvd[1] # << >> /\ rcvd[1][1].req = 2
  /\ ret[1].counts \in CountVectors

====
